---------------------------- MODULE Spec2Model ----------------------------
(***************************************************************************)
(* Model of src/main.py: Grid (marker scan, validity walk, path product)   *)
(* and Subgrid (rectangle between two markers, recursive path              *)
(* enumeration with its shared recording list).                            *)
(*                                                                         *)
(* Conventions.  A Python string is a sequence of one-character strings,   *)
(* a list is a sequence, a Point is a record [x, y] with the 0-based       *)
(* coordinates of the source (the cell is grid[y + 1][x + 1] here).        *)
(* None is the empty sequence <<>> and a value v that may be None is <<v>>.*)
(* A Python list object lives in heap and is named by its index there, so  *)
(* that two names of one list are told apart from two equal lists.         *)
(***************************************************************************)
EXTENDS Integers, Sequences, FiniteSets, TLC

VARIABLES
    grid,          \* Grid.grid / Grid.rows: the rows, first line read first
    points,        \* Grid.points: the marker list
    visited,       \* Grid.visited
    is_possible,   \* Grid._is_possible: <<>> (None) or <<BOOLEAN>>
    paths_cache,   \* Grid._paths: <<>> (None) or <<count>>
    pc,            \* where the program is
    caller,        \* who evaluates is_possible: "user" or "paths_count"
    cur,           \* the (x, y) of the pending _did_miss_points call
    paths,         \* paths_count's local `paths`
    i,             \* paths_count's loop index
    sub,           \* the rows of the Subgrid `sub` of paths_count
    sub_points,    \* its points
    sub_paths,     \* its _paths: <<>> (None) or <<list of references>>
    heap,          \* the recording lists _move has allocated
    stack,         \* the frames of the _move calls in progress
    ret,           \* what the last finished property read returned
    err            \* the exception that ended the program, or "none"

vars == <<grid, points, visited, is_possible, paths_cache, pc, caller, cur,
          paths, i, sub, sub_points, sub_paths, heap, stack, ret, err>>

gridVars == <<grid, points>>
subVars == <<sub, sub_points, sub_paths, heap, stack>>

-----------------------------------------------------------------------------
(* Bounds of the model: the largest grid read. *)
MaxWidth == 3
MaxHeight == 3

Cells == {"X", "."}

(* The well-formed grids: at least one row, all rows of one width. *)
Grids == UNION {[1..h -> [1..w -> Cells]] : w \in 1..MaxWidth, h \in 1..MaxHeight}

Point(x, y) == [x |-> x, y |-> y]

width(g) == Len(g[1])

height(g) == Len(g)

(* self.cols: column y of the grid joined to one string. *)
Cols(g) == [x0 \in 1..width(g) |-> [y0 \in 1..height(g) |-> g[y0][x0]]]

(* The markers of row y, columns ascending. *)
RowPoints(g, y) ==
    SelectSeq([x0 \in 1..Len(g[y + 1]) |-> Point(x0 - 1, y)],
              LAMBDA p : g[y + 1][p.x + 1] = "X")

RECURSIVE ScanRows(_, _)
ScanRows(g, y) == IF y < 0 THEN <<>> ELSE RowPoints(g, y) \o ScanRows(g, y - 1)

(* The marker list: rows from the last to the first, columns left to right. *)
Points(g) == ScanRows(g, Len(g) - 1)

SetOf(s) == {s[k] : k \in DOMAIN s}

(* Python's `s in list`: some element equals s. *)
Contains(list, s) == \E k \in DOMAIN list : list[k] = s

(* list[:k] + list[k + 1:] *)
Without(list, k) == SubSeq(list, 1, k) \o SubSeq(list, k + 2, Len(list))

-----------------------------------------------------------------------------
(* Grid._nothing_before *)
NothingBefore(pts, vis, x, y) ==
    \A k \in DOMAIN pts :
        pts[k] \notin vis => ~(pts[k].x < x \/ pts[k].y > y)

(* Variant: the exclusivity test done on the cells, "some column other than *)
(* x holds an X and some row other than y holds an X".                      *)
MutuallyExclusiveCells(g, x, y) ==
    LET cols == Without(Cols(g), x)
        rows == Without(g, y)
    IN  ~(/\ \E k \in DOMAIN cols : Contains(cols[k], "X")
          /\ \E k \in DOMAIN rows : Contains(rows[k], "X"))

(* Grid._mutually_exclusive_row_col: `"X" in cols` asks whether one of the  *)
(* column strings IS the string "X", not whether one of them holds an X.    *)
MutuallyExclusiveRowCol(g, x, y) ==
    LET cols == Without(Cols(g), x)
        rows == Without(g, y)
    IN  ~(Contains(cols, <<"X">>) /\ Contains(rows, <<"X">>))

(* Variant: the y term of the distance lost. *)
distX(x1, y1, x2, y2) == (x1 - x2) * (x1 - x2)

(* dist of _get_nearest, squared: math.sqrt is strictly increasing on the   *)
(* integers a grid's coordinates give, so min() and index() see the same    *)
(* order and the same ties on the squares.                                  *)
dist(x1, y1, x2, y2) == (x1 - x2) * (x1 - x2) + (y1 - y2) * (y1 - y2)

(* Variant: the point itself is not excluded. *)
ValidPointsWithSelf(pts, x, y) ==
    SelectSeq(pts, LAMBDA p : p.x >= x /\ p.y <= y)

(* valid_points of _get_nearest *)
ValidPoints(pts, x, y) ==
    SelectSeq(pts, LAMBDA p : p.x >= x /\ p.y <= y /\ ~(p.x = x /\ p.y = y))

(* distances.index(min(distances)): the first position of the least value *)
IndexOfMin(ds) ==
    CHOOSE k \in DOMAIN ds :
        /\ \A j \in DOMAIN ds : ds[k] <= ds[j]
        /\ \A j \in 1..(k - 1) : ds[j] > ds[k]

(* Grid._get_nearest: <<>> for None, else <<the point>> *)
GetNearest(pts, x, y) ==
    LET valid_points == ValidPoints(pts, x, y)
        distances == [k \in DOMAIN valid_points |->
                         dist(x, y, valid_points[k].x, valid_points[k].y)]
    IN  IF Len(valid_points) < 1 THEN <<>>
        ELSE <<valid_points[IndexOfMin(distances)]>>

(* Variant: the first test reads diffs >= 0. *)
WalkOutcomeGe(nearest, diffs) ==
    CASE nearest = <<>> /\ diffs >= 0 -> "miss"
      [] nearest = <<>> /\ diffs <= 0 -> "ok"
      [] nearest # <<>> /\ diffs > 0 -> "recurse"
      [] OTHER -> "raise"

(* The if/elif chain that ends Grid._did_miss_points. *)
WalkOutcome(nearest, diffs) ==
    CASE nearest = <<>> /\ diffs > 0 -> "miss"
      [] nearest = <<>> /\ diffs <= 0 -> "ok"
      [] nearest # <<>> /\ diffs > 0 -> "recurse"
      [] OTHER -> "raise"

(* One call of Grid._did_miss_points, up to its return or its recursive call *)
DidMissPoints(g, pts, vis, x, y) ==
    LET v == vis \cup {Point(x, y)}
        nearest == GetNearest(pts, x, y)
        diffs == Cardinality(SetOf(pts) \ v)
    IN  IF ~(NothingBefore(pts, v, x, y) /\ MutuallyExclusiveRowCol(g, x, y))
        THEN [visited |-> v, outcome |-> "miss", nearest |-> <<>>]
        ELSE [visited |-> v, outcome |-> WalkOutcome(nearest, diffs),
              nearest |-> nearest]

(* Variant: the negation lost. *)
IsPossibleNotNegated(miss) == miss

(* Grid.is_possible: not self._did_miss_points(x, y) *)
IsPossibleValue(miss) == ~miss

(* Variant: the slice stops before end.x. *)
FromPointsExclusive(g, start, end) ==
    LET keep == SelectSeq([y0 \in 1..Len(g) |-> y0 - 1],
                          LAMBDA y : y <= start.y /\ y >= end.y)
    IN  [k \in DOMAIN keep |-> SubSeq(g[keep[k] + 1], start.x + 1, end.x)]

(* Subgrid.from_points: the rows y with end.y <= y <= start.y, each sliced  *)
(* to the columns start.x .. end.x.                                        *)
FromPoints(g, start, end) ==
    LET keep == SelectSeq([y0 \in 1..Len(g) |-> y0 - 1],
                          LAMBDA y : y <= start.y /\ y >= end.y)
    IN  [k \in DOMAIN keep |-> SubSeq(g[keep[k] + 1], start.x + 1, end.x + 1)]

(* Variant: no diagonal move. *)
CanMoveNoDiagonal(x, y, end, s) ==
    CASE s = 1 -> x < end.x
      [] s = 2 -> y > end.y
      [] OTHER -> FALSE

(* The three tests of Subgrid._move, in the order of the source: move s is *)
(* 1: (x + 1, y), 2: (x, y - 1), 3: (x + 1, y - 1).                        *)
CanMove(x, y, end, s) ==
    CASE s = 1 -> x < end.x
      [] s = 2 -> y > end.y
      [] s = 3 -> x < end.x /\ y > end.y
      [] OTHER -> FALSE

(* Where move s leads. *)
Target(x, y, s) ==
    CASE s = 1 -> Point(x + 1, y)
      [] s = 2 -> Point(x, y - 1)
      [] OTHER -> Point(x + 1, y - 1)

(* The first move from s on that _move makes at (x, y); 4 when none is left *)
NextStage(x, y, end, s) ==
    IF s <= 1 /\ CanMove(x, y, end, 1) THEN 1
    ELSE IF s <= 2 /\ CanMove(x, y, end, 2) THEN 2
    ELSE IF s <= 3 /\ CanMove(x, y, end, 3) THEN 3
    ELSE 4

(* Entry of Subgrid._move(x, y, recording_path) with the list arg:         *)
(* `recording_path or []` makes a new list when the one passed is empty,   *)
(* then the point is appended to it.                                       *)
EnterMove(h, x, y, arg, end) ==
    LET fresh == Len(h[arg]) = 0
        rec == IF fresh THEN Len(h) + 1 ELSE arg
        h1 == IF fresh THEN Append(h, <<>>) ELSE h
    IN  [heap |-> [h1 EXCEPT ![rec] = Append(@, Point(x, y))],
         frame |-> [x |-> x, y |-> y, rec |-> rec,
                    stage |-> NextStage(x, y, end, 1),
                    p |-> <<<<>>, <<>>, <<>>>>]]

(* The lists a list of references names. *)
Deref(h, refs) == [k \in DOMAIN refs |-> h[refs[k]]]

(* What Subgrid._move returns from a frame whose moves are all made. *)
MoveResult(h, f) ==
    IF /\ Deref(h, f.p[1]) = Deref(h, f.p[2])
       /\ Deref(h, f.p[2]) = Deref(h, f.p[3])
       /\ Deref(h, f.p[3]) = <<>>
    THEN <<f.rec>>
    ELSE f.p[1] \o f.p[2] \o f.p[3]

(* Variant: the counts are added. *)
AccumulateSum(total, n) == total + n

(* paths *= len(sub.paths) *)
Accumulate(total, n) == total * n

-----------------------------------------------------------------------------
NoRet == [op |-> "none", val |-> <<>>]

Init ==
    /\ grid \in Grids
    /\ points = <<>>
    /\ visited = {}
    /\ is_possible = <<>>
    /\ paths_cache = <<>>
    /\ pc = "new"
    /\ caller = "none"
    /\ cur = <<>>
    /\ paths = 0
    /\ i = 0
    /\ sub = <<>>
    /\ sub_points = <<>>
    /\ sub_paths = <<>>
    /\ heap = <<>>
    /\ stack = <<>>
    /\ ret = NoRet
    /\ err = "none"

(* Grid.__init__ *)
Construct ==
    /\ pc = "new"
    /\ points' = Points(grid)
    /\ IF Len(points') < 1
       THEN pc' = "raised" /\ err' = "RuntimeError: no start"
       ELSE pc' = "idle" /\ err' = err
    /\ UNCHANGED <<grid, visited, is_possible, paths_cache, caller, cur,
                   paths, i, ret>>
    /\ UNCHANGED subVars

(* A read of Grid.is_possible by the user of the Grid. *)
GetIsPossible ==
    /\ pc = "idle"
    /\ IF is_possible = <<>>
       THEN /\ pc' = "walk"
            /\ caller' = "user"
            /\ cur' = <<points[1]>>
            /\ ret' = NoRet
       ELSE /\ ret' = [op |-> "is_possible", val |-> is_possible]
            /\ UNCHANGED <<pc, caller, cur>>
    /\ UNCHANGED <<visited, is_possible, paths_cache, paths, i, err>>
    /\ UNCHANGED gridVars
    /\ UNCHANGED subVars

(* One call of Grid._did_miss_points; the last one stores _is_possible and  *)
(* returns to the reader of the property.                                   *)
DidMissPointsStep ==
    /\ pc = "walk"
    /\ LET r == DidMissPoints(grid, points, visited, cur[1].x, cur[1].y)
           possible == IsPossibleValue(r.outcome = "miss")
       IN  /\ visited' = r.visited
           /\ CASE r.outcome = "recurse" ->
                     /\ cur' = r.nearest
                     /\ UNCHANGED <<is_possible, paths_cache, pc, caller,
                                    paths, i, ret, err>>
                [] r.outcome = "raise" ->
                     /\ pc' = "raised"
                     /\ err' = "RuntimeError: logic"
                     /\ UNCHANGED <<is_possible, paths_cache, caller, cur,
                                    paths, i, ret>>
                [] OTHER ->
                     /\ is_possible' = <<possible>>
                     /\ cur' = <<>>
                     /\ caller' = "none"
                     /\ err' = err
                     /\ IF caller = "user"
                        THEN /\ ret' = [op |-> "is_possible",
                                        val |-> <<possible>>]
                             /\ pc' = "idle"
                             /\ UNCHANGED <<paths_cache, paths, i>>
                        ELSE IF possible
                        THEN /\ pc' = "loop"
                             /\ paths' = 1
                             /\ i' = 0
                             /\ UNCHANGED <<paths_cache, ret>>
                        ELSE /\ pc' = "idle"
                             /\ paths_cache' = <<>>
                             /\ ret' = [op |-> "paths_count", val |-> <<>>]
                             /\ UNCHANGED <<paths, i>>
    /\ UNCHANGED gridVars
    /\ UNCHANGED subVars

(* A read of Grid.paths_count by the user of the Grid, up to its return or *)
(* to the point where it reads is_possible or enters its loop.            *)
GetPathsCount ==
    /\ pc = "idle"
    /\ CASE paths_cache # <<>> ->
              /\ ret' = [op |-> "paths_count", val |-> paths_cache]
              /\ UNCHANGED <<paths_cache, pc, caller, cur, paths, i>>
         [] paths_cache = <<>> /\ Len(points) <= 0 ->
              /\ paths_cache' = <<0>>
              /\ ret' = [op |-> "paths_count", val |-> <<0>>]
              /\ UNCHANGED <<pc, caller, cur, paths, i>>
         [] paths_cache = <<>> /\ Len(points) = 1 ->
              /\ paths_cache' = <<1>>
              /\ ret' = [op |-> "paths_count", val |-> <<1>>]
              /\ UNCHANGED <<pc, caller, cur, paths, i>>
         [] paths_cache = <<>> /\ Len(points) > 1 /\ is_possible = <<>> ->
              /\ pc' = "walk"
              /\ caller' = "paths_count"
              /\ cur' = <<points[1]>>
              /\ ret' = NoRet
              /\ UNCHANGED <<paths_cache, paths, i>>
         [] paths_cache = <<>> /\ Len(points) > 1 /\ is_possible = <<TRUE>> ->
              /\ pc' = "loop"
              /\ paths' = 1
              /\ i' = 0
              /\ ret' = NoRet
              /\ UNCHANGED <<paths_cache, caller, cur>>
         [] OTHER ->
              /\ paths_cache' = <<>>
              /\ ret' = [op |-> "paths_count", val |-> <<>>]
              /\ UNCHANGED <<pc, caller, cur, paths, i>>
    /\ UNCHANGED <<visited, is_possible, err>>
    /\ UNCHANGED gridVars
    /\ UNCHANGED subVars

(* One turn of the loop of paths_count: Subgrid.from_points, the Subgrid's *)
(* __init__ with its assertion, and the first call of _move that the read  *)
(* of sub.paths makes.                                                     *)
LoopStep ==
    /\ pc = "loop"
    /\ i < Len(points) - 1
    /\ LET last_p == points[i + 1]
           p == points[i + 2]
           g == FromPoints(grid, last_p, p)
           pts == IF g = <<>> THEN <<>> ELSE Points(g)
           e == EnterMove(<<<<>>>>, pts[1].x, pts[1].y, 1, pts[Len(pts)])
       IN  /\ sub' = g
           /\ sub_points' = pts
           /\ sub_paths' = <<>>
           /\ CASE g = <<>> ->
                     /\ pc' = "raised" /\ err' = "IndexError"
                     /\ heap' = <<>> /\ stack' = <<>>
                [] g # <<>> /\ Len(pts) < 1 ->
                     /\ pc' = "raised" /\ err' = "RuntimeError: no start"
                     /\ heap' = <<>> /\ stack' = <<>>
                [] g # <<>> /\ Len(pts) >= 1 /\ Len(pts) # 2 ->
                     /\ pc' = "raised" /\ err' = "AssertionError"
                     /\ heap' = <<>> /\ stack' = <<>>
                [] OTHER ->
                     /\ pc' = "move" /\ err' = err
                     /\ heap' = e.heap
                     /\ stack' = <<e.frame>>
    /\ UNCHANGED <<visited, is_possible, paths_cache, caller, cur, paths, i,
                   ret>>
    /\ UNCHANGED gridVars

(* Subgrid._move makes its next recursive call. *)
MoveCall ==
    /\ pc = "move"
    /\ LET f == stack[Len(stack)]
           t == Target(f.x, f.y, f.stage)
           e == EnterMove(heap, t.x, t.y, f.rec, sub_points[Len(sub_points)])
       IN  /\ f.stage < 4
           /\ heap' = e.heap
           /\ stack' = Append(stack, e.frame)
    /\ UNCHANGED <<visited, is_possible, paths_cache, pc, caller, cur, paths,
                   i, sub, sub_points, sub_paths, ret, err>>
    /\ UNCHANGED gridVars

(* Subgrid._move returns: to the call that made it, or to paths_count,     *)
(* which multiplies len(sub.paths) into paths.                             *)
MoveReturn ==
    /\ pc = "move"
    /\ LET f == stack[Len(stack)]
           val == MoveResult(heap, f)
           rest == SubSeq(stack, 1, Len(stack) - 1)
           c == rest[Len(rest)]
           end == sub_points[Len(sub_points)]
       IN  /\ f.stage = 4
           /\ IF rest = <<>>
              THEN /\ stack' = <<>>
                   /\ sub_paths' = <<val>>
                   /\ paths' = Accumulate(paths, Len(val))
                   /\ i' = i + 1
                   /\ pc' = "loop"
              ELSE /\ stack' = Append(SubSeq(rest, 1, Len(rest) - 1),
                          [c EXCEPT !.p[c.stage] = val,
                                    !.stage = NextStage(c.x, c.y, end,
                                                        c.stage + 1)])
                   /\ UNCHANGED <<sub_paths, paths, i, pc>>
    /\ UNCHANGED <<visited, is_possible, paths_cache, caller, cur, sub,
                   sub_points, heap, ret, err>>
    /\ UNCHANGED gridVars

(* The loop of paths_count is over: self._paths = paths, and the return.   *)
PathsCountReturn ==
    /\ pc = "loop"
    /\ i >= Len(points) - 1
    /\ paths_cache' = <<paths>>
    /\ ret' = [op |-> "paths_count", val |-> <<paths>>]
    /\ pc' = "idle"
    /\ UNCHANGED <<visited, is_possible, caller, cur, paths, i, err>>
    /\ UNCHANGED gridVars
    /\ UNCHANGED subVars

Next ==
    \/ Construct
    \/ GetIsPossible
    \/ DidMissPointsStep
    \/ GetPathsCount
    \/ LoopStep
    \/ MoveCall
    \/ MoveReturn
    \/ PathsCountReturn

Spec == Init /\ [][Next]_vars

-----------------------------------------------------------------------------
(* Definitions the properties are stated with. *)

(* The Delannoy numbers. *)
RECURSIVE Delannoy(_, _)
Delannoy(m, n) ==
    IF m <= 0 \/ n <= 0 THEN 1
    ELSE Delannoy(m - 1, n) + Delannoy(m, n - 1) + Delannoy(m - 1, n - 1)

(* p is before q, or is q, in the staircase order: q is right of and/or    *)
(* above p.                                                                *)
StairLeq(p, q) == p.x <= q.x /\ p.y >= q.y

PairwiseComparable(pts) ==
    \A p, q \in SetOf(pts) : StairLeq(p, q) \/ StairLeq(q, p)

(* The product of D(dx, dy) over the consecutive pairs of the marker list. *)
RECURSIVE PairProduct(_, _)
PairProduct(pts, k) ==
    IF k >= Len(pts) THEN 1
    ELSE Delannoy(pts[k + 1].x - pts[k].x, pts[k].y - pts[k + 1].y)
         * PairProduct(pts, k + 1)

(* One of the three unit moves of a monotonic path. *)
UnitMove(p, q) ==
    \/ q.x = p.x + 1 /\ q.y = p.y
    \/ q.x = p.x /\ q.y = p.y - 1
    \/ q.x = p.x + 1 /\ q.y = p.y - 1

FullMonotonicPath(path, start, end) ==
    /\ Len(path) >= 1
    /\ path[1] = start
    /\ path[Len(path)] = end
    /\ \A k \in 1..(Len(path) - 1) : UnitMove(path[k], path[k + 1])

(* The candidates of _get_nearest at the least distance. *)
Tied(pts, x, y) ==
    LET valid == SetOf(ValidPoints(pts, x, y))
    IN  {p \in valid : \A q \in valid :
            dist(x, y, p.x, p.y) <= dist(x, y, q.x, q.y)}

(* What the validity walk returns when it is continued from (x, y). *)
RECURSIVE WalkFrom(_, _, _, _, _)
WalkFrom(g, pts, vis, x, y) ==
    LET r == DidMissPoints(g, pts, vis, x, y)
    IN  IF r.outcome = "recurse"
        THEN WalkFrom(g, pts, r.visited, r.nearest[1].x, r.nearest[1].y)
        ELSE r.outcome

(* Along the walk from (x, y): at some step two or more candidates tie and *)
(* going to a tied candidate other than the first changes the result.      *)
RECURSIVE TieChanges(_, _, _, _, _)
TieChanges(g, pts, vis, x, y) ==
    LET r == DidMissPoints(g, pts, vis, x, y)
        n == r.nearest[1]
    IN  /\ r.outcome = "recurse"
        /\ \/ \E t \in Tied(pts, x, y) \ {n} :
                 WalkFrom(g, pts, r.visited, t.x, t.y)
                     # WalkFrom(g, pts, r.visited, n.x, n.y)
           \/ TieChanges(g, pts, r.visited, n.x, n.y)

Diagonal == << <<"X", ".", ".">>, <<".", "X", ".">>, <<".", ".", "X">> >>

Staircase == << <<".", ".", "X">>, <<".", "X", ".">>, <<"X", ".", ".">> >>

-----------------------------------------------------------------------------
(* C1, as stated: for the rows "X..", ".X.", "..X" is_possible is True and *)
(* paths_count is 9.                                                       *)
C1_DiagonalValidNine ==
    grid = Diagonal =>
        /\ is_possible # <<>> => is_possible = <<TRUE>>
        /\ ret.op = "paths_count" => ret.val = <<9>>

(* C1, amended: for the rows "X..", ".X.", "..X" is_possible is False and  *)
(* paths_count returns None, without an exception.                         *)
C1_DiagonalInvalid ==
    grid = Diagonal =>
        /\ err = "none"
        /\ is_possible # <<>> => is_possible = <<FALSE>>
        /\ ret.op = "is_possible" => ret.val = <<FALSE>>
        /\ ret.op = "paths_count" => ret.val = <<>> /\ paths_cache = <<>>

C1_Witness ==
    /\ grid = Diagonal
    /\ is_possible = <<FALSE>>
    /\ ret.op = "paths_count"

(* C2: once the validity walk has reached a marker (x, y) such that some   *)
(* marker lies in another column and some marker lies in another row,      *)
(* is_possible is False.                                                   *)
C2_NonDecomposableRejected ==
    (/\ is_possible # <<>>
     /\ \E v \in visited :
           /\ \E p \in SetOf(points) : p.x # v.x
           /\ \E q \in SetOf(points) : q.y # v.y)
    => is_possible = <<FALSE>>

(* C3: the paths of a Subgrid whose markers are its bottom-left and its    *)
(* top-right cell number D(dx, dy); dx = dy = 1 gives 3.                   *)
C3_DelannoyCount ==
    (/\ sub_paths # <<>>
     /\ sub_points[1] = Point(0, height(sub) - 1)
     /\ sub_points[2] = Point(width(sub) - 1, 0))
    => LET dx == sub_points[2].x - sub_points[1].x
           dy == sub_points[1].y - sub_points[2].y
       IN  /\ dx >= 0 /\ dy >= 0
           /\ Len(sub_paths[1]) = Delannoy(dx, dy)
           /\ (dx = 1 /\ dy = 1) => Len(sub_paths[1]) = 3

C3_Witness ==
    /\ sub_paths # <<>>
    /\ sub_points[1] = Point(0, height(sub) - 1)
    /\ sub_points[2] = Point(width(sub) - 1, 0)
    /\ width(sub) = 3 /\ height(sub) = 3
    /\ Len(sub_paths[1]) = 13

(* C4: with two or more markers and is_possible True, paths_count returns  *)
(* an integer >= 1, the product over the consecutive pairs of the marker   *)
(* list of the pair's path count; the rows "..X", ".X.", "X.." give 9.     *)
C4_ProductOfPairs ==
    (ret.op = "paths_count" /\ Len(points) >= 2 /\ is_possible = <<TRUE>>)
    => /\ ret.val # <<>>
       /\ ret.val[1] >= 1
       /\ ret.val[1] = PairProduct(points, 1)
       /\ paths_cache = ret.val
       /\ grid = Staircase => ret.val[1] = 9

C4_Witness ==
    /\ ret.op = "paths_count"
    /\ grid = Staircase
    /\ is_possible = <<TRUE>>
    /\ ret.val = <<9>>

(* C5: a grid with exactly one marker, wherever it is, has is_possible     *)
(* True and paths_count 1.                                                 *)
C5_SingleMarker ==
    Len(points) = 1 =>
        /\ err = "none"
        /\ is_possible # <<>> => is_possible = <<TRUE>>
        /\ ret.op = "is_possible" => ret.val = <<TRUE>>
        /\ ret.op = "paths_count" => ret.val = <<1>>
        /\ paths_cache # <<>> => paths_cache = <<1>>

C5_Witness ==
    /\ Len(points) = 1
    /\ points[1] = Point(1, 1)
    /\ width(grid) = 3 /\ height(grid) = 3
    /\ is_possible = <<TRUE>>
    /\ ret = [op |-> "paths_count", val |-> <<1>>]

(* C6: in a call of _did_miss_points in which both conditions pass,        *)
(* _get_nearest finds a marker exactly when a marker is unvisited; the     *)
(* RuntimeError of the last branch is never raised, every call visits a    *)
(* marker not visited before, and is_possible ends as True or False.       *)
C6_NearestIffUnvisited ==
    /\ err # "RuntimeError: logic"
    /\ is_possible \in {<<>>, <<TRUE>>, <<FALSE>>}
    /\ pc = "walk" =>
          LET x == cur[1].x
              y == cur[1].y
              v == visited \cup {cur[1]}
          IN  /\ cur[1] \in SetOf(points) \ visited
              /\ (NothingBefore(points, v, x, y)
                    /\ MutuallyExclusiveRowCol(grid, x, y))
                 => /\ GetNearest(points, x, y) # <<>>
                          <=> SetOf(points) \ v # {}
                    /\ DidMissPoints(grid, points, visited, x, y).outcome
                          \in {"ok", "recurse"}

C6_Witness ==
    /\ pc = "walk"
    /\ visited # {}
    /\ NothingBefore(points, visited \cup {cur[1]}, cur[1].x, cur[1].y)
    /\ GetNearest(points, cur[1].x, cur[1].y) # <<>>
    /\ SetOf(points) \ (visited \cup {cur[1]}) # {}

(* C7: every Subgrid that paths_count builds holds exactly 2 markers; the  *)
(* assertion of Subgrid.__init__ never fails, nor does the construction.   *)
C7_SubgridTwoMarkers ==
    /\ err \notin {"AssertionError", "IndexError"}
    /\ err = "RuntimeError: no start" => points = <<>>
    /\ pc \in {"loop", "move"} => is_possible = <<TRUE>>
    /\ sub # <<>> =>
          /\ Len(sub_points) = 2
          /\ \E k \in 1..(Len(points) - 1) :
                sub = FromPoints(grid, points[k], points[k + 1])

C7_Witness ==
    /\ pc = "move"
    /\ i = 1
    /\ Len(points) = 3
    /\ Len(sub_points) = 2

(* C8: every element of Subgrid.paths is a full monotonic path from start  *)
(* to end.                                                                 *)
C8_FullMonotonicPaths ==
    sub_paths # <<>> =>
        \A k \in DOMAIN sub_paths[1] :
            FullMonotonicPath(heap[sub_paths[1][k]], sub_points[1],
                              sub_points[Len(sub_points)])

(* C9, as stated: there is a well-formed grid (the one read, or any other  *)
(* within the bounds) in whose validity walk two or more candidates tie at *)
(* the least distance and the choice of a tied candidate other than the    *)
(* first changes is_possible.                                              *)
C9_TieBreakLoadBearing ==
    \E g \in Grids \cup {grid} :
        /\ Points(g) # <<>>
        /\ TieChanges(g, Points(g), {}, Points(g)[1].x, Points(g)[1].y)

(* C9, amended: whenever two or more candidates tie at the least distance  *)
(* at a step of the validity walk, the walk returns True (is_possible is   *)
(* False) whichever of them it goes to.                                    *)
C9_TieNeverDecides ==
    (/\ pc = "walk"
     /\ DidMissPoints(grid, points, visited, cur[1].x, cur[1].y).outcome
           = "recurse"
     /\ Cardinality(Tied(points, cur[1].x, cur[1].y)) >= 2)
    => \A t \in Tied(points, cur[1].x, cur[1].y) :
          WalkFrom(grid, points, visited \cup {cur[1]}, t.x, t.y) = "miss"

C9_Witness ==
    /\ pc = "walk"
    /\ DidMissPoints(grid, points, visited, cur[1].x, cur[1].y).outcome
          = "recurse"
    /\ Cardinality(Tied(points, cur[1].x, cur[1].y)) >= 2

=============================================================================
